---------------------------- MODULE Spec2Model ----------------------------
(***************************************************************************)
(* A model of app.py: the signup, login and generate-comment handlers of   *)
(* the LinkedIn comment proxy, the Firestore 'users' collection they share *)
(* and the wall clock they read.  Each request is handled by its own       *)
(* worker; a handler is cut into steps at its accesses to the document     *)
(* store and at the text-generation call, which are the only points where  *)
(* the workers can observe each other.                                     *)
(*                                                                         *)
(* Dates are day numbers: strftime('%Y-%m-%d') is injective on calendar    *)
(* days and the code only compares the strings for (in)equality.           *)
(* Init is the state after both clients were initialised successfully      *)
(* (db and client are not None).                                           *)
(***************************************************************************)
EXTENDS Integers, FiniteSets, Sequences, TLC

\* ------------------------------------------------------------ bounds
NReq == 2            \* request workers that can be in flight together
MaxDay == 2          \* the clock stops advancing at this day
MaxCount == 7        \* no usage update is applied beyond this stored count
MaxInitCount == 5    \* largest stored count of the record present at start

Reqs == 1..NReq
Users == {"a@x", "b@x"}
Emails == Users \cup {""}            \* "" : field missing or empty
SignupEmails == {"a@x", ""}          \* the emails signup is called with
Passwords == {"pw1", "pw2", ""}
Posts == {"post", ""}
Salts == {"s1"}
InitTiers == {"free", "enterprise", "legacy"}

\* ------------------------------------------------------------ values
Absent == [exists |-> FALSE]

None == [kind |-> "none", n |-> 0]
Inf == [kind |-> "inf", n |-> 0]
Fin(k) == [kind |-> "fin", n |-> k]

\* The tier table.  float('inf') is kept as a value of its own.
TIER_LIMITS_ent ==
    [t \in {"free", "tier1", "tier2", "tier3", "enterprise"} |->
        CASE t = "free" -> Fin(5)
          [] t = "tier1" -> Fin(30)
          [] t = "tier2" -> Fin(70)
          [] t = "tier3" -> Fin(100)
          [] t = "enterprise" -> Fin(5)]

TIER_LIMITS ==
    [t \in {"free", "tier1", "tier2", "tier3", "enterprise"} |->
        CASE t = "free" -> Fin(5)
          [] t = "tier1" -> Fin(30)
          [] t = "tier2" -> Fin(70)
          [] t = "tier3" -> Fin(100)
          [] t = "enterprise" -> Inf]

\* TIER_LIMITS.get(tier, 0) of generate_comment
LimitOrZero_free(tier) ==
    IF tier \in DOMAIN TIER_LIMITS THEN TIER_LIMITS[tier] ELSE TIER_LIMITS["free"]

LimitOrZero(tier) ==
    IF tier \in DOMAIN TIER_LIMITS THEN TIER_LIMITS[tier] ELSE Fin(0)

\* TIER_LIMITS.get(tier) of login: None for a tier that is no key
LimitOrNone(tier) ==
    IF tier \in DOMAIN TIER_LIMITS THEN TIER_LIMITS[tier] ELSE None

\* count >= limit, where every finite count is below float('inf')
AtLeast(count, lim) == lim.kind = "fin" /\ count >= lim.n

\* count <= limit
WithinLimit(count, lim) == lim.kind = "inf" \/ (lim.kind = "fin" /\ count <= lim.n)

\* werkzeug's salted hash: the salt is stored with the digest, and the
\* digest is a function of the salt and the password.
generate_password_hash(password, salt) ==
    [salt |-> salt, digest |-> <<salt, password>>]

check_password_hash(pwhash, password) ==
    pwhash.digest = <<pwhash.salt, password>>

\* A 'users' document (created_at is written once and never read).
Doc(pwhash, tier, count, date) ==
    [exists |-> TRUE, password_hash |-> pwhash, subscription_tier |-> tier,
     daily_comment_count |-> count, last_comment_date |-> date]

NoUserData == [email |-> "", tier |-> "", usage |-> 0, limit |-> None]

\* A response: status code and JSON body, one field per key the handlers use
\* (json: the body is the JSON a handler built with jsonify).
Resp(status, error, lim, comment, userData) ==
    [status |-> status, error |-> error, limit |-> lim, comment |-> comment,
     userData |-> userData, json |-> TRUE]

Err(status, error) == Resp(status, error, None, "", NoUserData)

\* An exception no handler catches leaves the view function: the framework
\* answers for it (status 500, an error page), not the handler's jsonify.
Unhandled == [Err(500, "") EXCEPT !.json = FALSE]

NoArgs == [op |-> "", email |-> "", password |-> ""]
NoData == [daily_comment_count |-> 0, last_comment_date |-> 0,
           subscription_tier |-> ""]

VARIABLES
    users,        \* users_ref: email -> document, or Absent
    now,          \* the day datetime.now() falls on
    pc,           \* where each worker is in its handler
    args,         \* the request a worker is handling
    user_doc,     \* generate_comment: the snapshot read from the store
    user_data,    \* generate_comment: the local dict after the day reset
    today_str,    \* generate_comment: the date taken at the quota check
    last,         \* history: the response returned last, its worker and
                  \* request, and (raced) whether a usage update found the
                  \* stored count raised since the handler read it, the
                  \* date read being the request's day already
    succeeded     \* history: per user and day, how many generate-comment
                  \* requests of that day (the request's today_str) have
                  \* returned a comment

vars == <<users, now, pc, args, user_doc, user_data, today_str, last,
          succeeded>>

\* ------------------------------------------------------------ initial state
\* "a@x" is not registered, or is registered already (with any tier the
\* billing side may have set and a count left from an earlier day, or from
\* today and within the tier's limit).  "b@x" is not registered.
InitDocs ==
    {Doc(generate_password_hash("pw1", "s1"), t, c, d) :
        t \in InitTiers, c \in 0..MaxInitCount, d \in {0, 1}}

Init ==
    /\ now = 1
    /\ \E doc \in InitDocs \cup {Absent} :
          /\ doc.exists /\ doc.last_comment_date = now =>
                WithinLimit(doc.daily_comment_count,
                            LimitOrZero(doc.subscription_tier))
          /\ users = [u \in Users |-> IF u = "a@x" THEN doc ELSE Absent]
    /\ pc = [r \in Reqs |-> "idle"]
    /\ args = [r \in Reqs |-> NoArgs]
    /\ user_doc = [r \in Reqs |-> Absent]
    /\ user_data = [r \in Reqs |-> NoData]
    /\ today_str = [r \in Reqs |-> 0]
    /\ last = [worker |-> 0, op |-> "", email |-> "", raced |-> FALSE,
               resp |-> Err(0, "")]
    /\ succeeded = [u \in Users |-> [d \in 0..MaxDay |->
                       IF users[u].exists /\ users[u].last_comment_date = d
                         THEN users[u].daily_comment_count ELSE 0]]

\* ------------------------------------------------------------ workers
\* A worker takes a new request when it is not inside a handler.
Ready(r) == pc[r] = "idle"

\* The handler returns: its locals are gone, the response is the last one.
Return(r, op, email, raced, response) ==
    /\ pc' = [pc EXCEPT ![r] = "idle"]
    /\ args' = [args EXCEPT ![r] = NoArgs]
    /\ user_doc' = [user_doc EXCEPT ![r] = Absent]
    /\ user_data' = [user_data EXCEPT ![r] = NoData]
    /\ today_str' = [today_str EXCEPT ![r] = 0]
    /\ last' = [worker |-> r, op |-> op, email |-> email, raced |-> raced,
                resp |-> response]

\* The handler goes on to its next step.
Goto(r, label) == pc' = [pc EXCEPT ![r] = label]

\* ------------------------------------------------------------ signup
\* signup, lines 58-67: validation and the existence check.
SignupCheck_nocheck(r, email, password) ==
    /\ Ready(r)
    /\ IF email = "" \/ password = ""
          THEN Return(r, "signup", email, FALSE,
                      Err(400, "Email and password are required"))
          ELSE /\ Goto(r, "signup_set")
               /\ args' = [args EXCEPT ![r] = [op |-> "signup", email |-> email,
                                                password |-> password]]
               /\ UNCHANGED <<user_doc, user_data, today_str, last>>
    /\ UNCHANGED <<users, now, succeeded>>

SignupCheck(r, email, password) ==
    /\ Ready(r)
    /\ IF email = "" \/ password = ""
          THEN Return(r, "signup", email, FALSE,
                      Err(400, "Email and password are required"))
          ELSE IF users[email].exists
            THEN Return(r, "signup", email, FALSE,
                        Err(409, "User with this email already exists"))
            ELSE /\ Goto(r, "signup_set")
                 /\ args' = [args EXCEPT ![r] = [op |-> "signup", email |-> email,
                                                  password |-> password]]
                 /\ UNCHANGED <<user_doc, user_data, today_str, last>>
    /\ UNCHANGED <<users, now, succeeded>>

\* signup, lines 73-80: the document of a new user.
NewUser_stale(pwhash, today) == Doc(pwhash, "free", 0, today - 1)

NewUser(pwhash, today) == Doc(pwhash, "free", 0, today)

\* signup, lines 69-83: hash the password and set() the document, which
\* creates it or replaces whatever is stored under the email.
SignupSet(r) ==
    /\ pc[r] = "signup_set"
    /\ \E salt \in Salts :
          users' = [users EXCEPT ![args[r].email] =
                      NewUser(generate_password_hash(args[r].password, salt),
                              now)]
    /\ Return(r, "signup", args[r].email, FALSE,
              Resp(201, "", None, "", NoUserData))
    /\ UNCHANGED <<now, succeeded>>

\* ------------------------------------------------------------ login
\* login, lines 98-119: the response for a request with both fields given.
LoginResponse_404(email, password) ==
    IF ~users[email].exists
      THEN Err(404, "User not found")
      ELSE IF ~check_password_hash(users[email].password_hash, password)
        THEN Err(401, "Invalid credentials")
        ELSE Resp(200, "", None, "",
                  [email |-> email,
                   tier |-> users[email].subscription_tier,
                   usage |-> users[email].daily_comment_count,
                   limit |-> LimitOrNone(users[email].subscription_tier)])

LoginResponse(email, password) ==
    IF ~users[email].exists
      THEN Err(401, "Invalid credentials")
      ELSE IF ~check_password_hash(users[email].password_hash, password)
        THEN Err(401, "Invalid credentials")
        ELSE Resp(200, "", None, "",
                  [email |-> email,
                   tier |-> users[email].subscription_tier,
                   usage |-> users[email].daily_comment_count,
                   limit |-> LimitOrNone(users[email].subscription_tier)])

\* login: one read of the store, so the handler is one step.
Login(r, email, password) ==
    /\ Ready(r)
    /\ IF email = "" \/ password = ""
          THEN Return(r, "login", email, FALSE,
                      Err(400, "Email and password are required"))
          ELSE Return(r, "login", email, FALSE, LoginResponse(email, password))
    /\ UNCHANGED <<users, now, succeeded>>

\* ------------------------------------------------------------ generate-comment
\* generate_comment, lines 130-145: validation and the read of the document.
GenRead(r, userId, postContent) ==
    /\ Ready(r)
    /\ IF userId = "" \/ postContent = ""
          THEN Return(r, "generate", userId, FALSE,
                      Err(400, "Missing userId or postContent"))
          ELSE IF ~users[userId].exists
            THEN Return(r, "generate", userId, FALSE,
                        Err(404, "User not found. Please log in again."))
            ELSE /\ Goto(r, "check")
                 /\ args' = [args EXCEPT ![r] = [op |-> "generate",
                                                  email |-> userId,
                                                  password |-> ""]]
                 /\ user_doc' = [user_doc EXCEPT ![r] = users[userId]]
                 /\ UNCHANGED <<user_data, today_str, last>>
    /\ UNCHANGED <<users, now, succeeded>>

\* lines 147-153: the local copy of the document, reset when its date is
\* not today's.  Only the local dict changes; nothing is written here.
ResetIfNewDay_never(doc, today) ==
    [daily_comment_count |-> doc.daily_comment_count,
     last_comment_date |-> doc.last_comment_date,
     subscription_tier |-> doc.subscription_tier]

ResetIfNewDay(doc, today) ==
    IF doc.last_comment_date # today
      THEN [daily_comment_count |-> 0, last_comment_date |-> today,
            subscription_tier |-> doc.subscription_tier]
      ELSE [daily_comment_count |-> doc.daily_comment_count,
            last_comment_date |-> doc.last_comment_date,
            subscription_tier |-> doc.subscription_tier]

\* lines 155-159: whether the request is over its limit.
OverLimit_gt(data) ==
    LET lim == LimitOrZero(data.subscription_tier)
    IN lim.kind = "fin" /\ data.daily_comment_count > lim.n

OverLimit(data) ==
    AtLeast(data.daily_comment_count, LimitOrZero(data.subscription_tier))

\* lines 147-160: the quota check on the snapshot, at the current date.
GenCheck(r) ==
    /\ pc[r] = "check"
    /\ LET data == ResetIfNewDay(user_doc[r], now)
       IN IF OverLimit(data)
            THEN Return(r, "generate", args[r].email, FALSE,
                        Resp(429, "Daily limit reached",
                             LimitOrZero(data.subscription_tier), "",
                             NoUserData))
            ELSE /\ Goto(r, "call")
                 /\ user_data' = [user_data EXCEPT ![r] = data]
                 /\ today_str' = [today_str EXCEPT ![r] = now]
                 /\ UNCHANGED <<args, user_doc, last>>
    /\ UNCHANGED <<users, now, succeeded>>

\* lines 183-186: update() with firestore.Increment(1): the store adds 1 to
\* the count it holds and sets the date, in one atomic write.
Updated_local(doc, data, today) ==
    [doc EXCEPT !.daily_comment_count = data.daily_comment_count + 1,
                !.last_comment_date = today]

Updated(doc, data, today) ==
    [doc EXCEPT !.daily_comment_count = @ + 1,
                !.last_comment_date = today]

\* lines 163-180 and 193-195: the text-generation call returns a text, or
\* raises (any transport, API or timeout error) and the handler answers 500.
GenCall_charge(r) ==
    /\ pc[r] = "call"
    /\ \E ok \in BOOLEAN :
          IF ok
            THEN /\ Goto(r, "update")
                 /\ UNCHANGED <<users, args, user_doc, user_data, today_str, last>>
            ELSE /\ users' = [users EXCEPT ![args[r].email] =
                                Updated(@, user_data[r], today_str[r])]
                 /\ Return(r, "generate", args[r].email, FALSE,
                       Err(500, "Failed to generate comment due to a server error."))
    /\ UNCHANGED <<now, succeeded>>

GenCall(r) ==
    /\ pc[r] = "call"
    /\ \E ok \in BOOLEAN :
          IF ok
            THEN /\ Goto(r, "update")
                 /\ UNCHANGED <<args, user_doc, user_data, today_str, last>>
            ELSE Return(r, "generate", args[r].email, FALSE,
                        Err(500, "Failed to generate comment due to a server error."))
    /\ UNCHANGED <<users, now, succeeded>>

\* lines 182-195: the usage update and the answer.  update() of a document
\* that does not exist raises, which the handler answers with 500.
GenUpdate(r) ==
    /\ pc[r] = "update"
    /\ LET u == args[r].email
       IN IF ~users[u].exists
            THEN /\ Return(r, "generate", u, FALSE,
                       Err(500, "Failed to generate comment due to a server error."))
                 /\ UNCHANGED <<users, succeeded>>
            ELSE /\ users[u].daily_comment_count < MaxCount
                 /\ succeeded' = [succeeded EXCEPT ![u][today_str[r]] = @ + 1]
                 /\ users' = [users EXCEPT ![u] =
                                  Updated(@, user_data[r], today_str[r])]
                 /\ Return(r, "generate", u,
                           /\ user_doc[r].last_comment_date = today_str[r]
                           /\ users[u].daily_comment_count
                                 > user_doc[r].daily_comment_count,
                           Resp(200, "", None, "generated_text", NoUserData))
    /\ UNCHANGED now

\* ------------------------------------------------------------ clock
\* datetime.now() (lines 78 and 148) moves on to the next day.
Tick ==
    /\ now < MaxDay
    /\ now' = now + 1
    /\ UNCHANGED <<users, pc, args, user_doc, user_data, today_str, last,
                   succeeded>>

\* ------------------------------------------------------------ store failures
\* A read of the document store raises (the store is unreachable): line 66
\* of signup, line 98 of login and line 142 of generate_comment are outside
\* any try block, so the exception leaves the handler.
StoreReadFails(r, op, email) ==
    /\ Ready(r)
    /\ Return(r, op, email, FALSE, Unhandled)
    /\ UNCHANGED <<users, now, succeeded>>

\* signup, line 81: set() raises; nothing is written and nothing catches it.
SignupSetFails(r) ==
    /\ pc[r] = "signup_set"
    /\ Return(r, "signup", args[r].email, FALSE, Unhandled)
    /\ UNCHANGED <<users, now, succeeded>>

\* generate_comment, line 183: update() raises inside the try block, and
\* the except clause of lines 193-195 answers 500 with a JSON body.
GenUpdateFails(r) ==
    /\ pc[r] = "update"
    /\ Return(r, "generate", args[r].email, FALSE,
              Err(500, "Failed to generate comment due to a server error."))
    /\ UNCHANGED <<users, now, succeeded>>

\* ------------------------------------------------------------ specifications
\* Requests handled concurrently, one worker each.
Next ==
    \/ \E r \in Reqs, e \in SignupEmails, p \in Passwords : SignupCheck(r, e, p)
    \/ \E r \in Reqs : SignupSet(r)
    \/ \E r \in Reqs, e \in Emails, p \in Passwords : Login(r, e, p)
    \/ \E r \in Reqs, e \in Emails, c \in Posts : GenRead(r, e, c)
    \/ \E r \in Reqs : GenCheck(r)
    \/ \E r \in Reqs : GenCall(r)
    \/ \E r \in Reqs : GenUpdate(r)
    \/ Tick

Spec == Init /\ [][Next]_vars

\* Requests executed one at a time: a request is taken only when no other
\* request is inside a handler.
Quiet == \A r \in Reqs : Ready(r)

SeqNext ==
    \/ \E r \in Reqs, e \in SignupEmails, p \in Passwords :
          Quiet /\ SignupCheck(r, e, p)
    \/ \E r \in Reqs : SignupSet(r)
    \/ \E r \in Reqs, e \in Emails, p \in Passwords : Quiet /\ Login(r, e, p)
    \/ \E r \in Reqs, e \in Emails, c \in Posts : Quiet /\ GenRead(r, e, c)
    \/ \E r \in Reqs : GenCheck(r)
    \/ \E r \in Reqs : GenCall(r)
    \/ \E r \in Reqs : GenUpdate(r)
    \/ Tick

SeqSpec == Init /\ [][SeqNext]_vars

\* Concurrent generate-comment requests only (no signup, no login).
GenNext ==
    \/ \E r \in Reqs, e \in Emails, c \in Posts : GenRead(r, e, c)
    \/ \E r \in Reqs : GenCheck(r)
    \/ \E r \in Reqs : GenCall(r)
    \/ \E r \in Reqs : GenUpdate(r)
    \/ Tick

GenSpec == Init /\ [][GenNext]_vars

\* Requests one at a time, with a document store that can fail.
FaultNext ==
    \/ SeqNext
    \/ \E r \in Reqs, op \in {"signup", "login", "generate"}, e \in Users :
          Quiet /\ StoreReadFails(r, op, e)
    \/ \E r \in Reqs : SignupSetFails(r)
    \/ \E r \in Reqs : GenUpdateFails(r)

FaultSpec == Init /\ [][FaultNext]_vars

\* Concurrent generate-comment requests within one day, for a user whose
\* stored date is that day already (and whose count is within the limit).
DayInit ==
    /\ Init
    /\ users["a@x"].exists
    /\ users["a@x"].last_comment_date = now

DayNext ==
    \/ \E r \in Reqs, e \in Emails, c \in Posts : GenRead(r, e, c)
    \/ \E r \in Reqs : GenCheck(r)
    \/ \E r \in Reqs : GenCall(r)
    \/ \E r \in Reqs : GenUpdate(r)

DaySpec == DayInit /\ [][DayNext]_vars

\* ------------------------------------------------------------ vocabulary
\* The effective used count of a stored document on a day.
EffectiveUsed(doc, today) ==
    IF doc.last_comment_date = today THEN doc.daily_comment_count ELSE 0

Positive(lim) == lim.kind = "inf" \/ (lim.kind = "fin" /\ lim.n > 0)

GenFailed == Err(500, "Failed to generate comment due to a server error.")

\* Worker r takes the quota check in this step.
Checks(r) == pc[r] = "check" /\ pc'[r] # "check"

\* Worker r's usage update is applied in this step.
Commits(r) ==
    /\ pc[r] = "update" /\ pc'[r] = "idle"
    /\ last'.worker = r /\ last'.resp.status = 200

\* ------------------------------------------------------------ claims
\* C1: with requests executed one at a time, the effective used count of
\* every user for today lies in [0, limit(tier)] in every reachable state.
C1_EffectiveUsedWithinLimit ==
    \A u \in Users :
        users[u].exists =>
            /\ EffectiveUsed(users[u], now) >= 0
            /\ WithinLimit(EffectiveUsed(users[u], now),
                           LimitOrZero(users[u].subscription_tier))

\* C2: a successful generate-comment for a user whose stored date differs
\* from the request's today leaves the stored count at 1 and the stored date
\* at today, whatever the stored count was.
C2_CommitOnNewDaySetsOne ==
    [][\A r \in Reqs :
          (Commits(r) /\ users[args[r].email].last_comment_date # today_str[r])
          => /\ users'[args[r].email].daily_comment_count = 1
             /\ users'[args[r].email].last_comment_date = today_str[r]]_vars

\* C3: when the stored date differs from today, the quota check decides on
\* an effective used count of 0 whatever the stored count is: the request is
\* permitted if and only if the tier's limit is greater than 0.
C3_NewDayCheckUsesZero ==
    [][\A r \in Reqs :
          (Checks(r) /\ users[args[r].email].last_comment_date # now)
          => /\ (pc'[r] = "call")
                  <=> Positive(LimitOrZero(users[args[r].email].subscription_tier))
             /\ pc'[r] = "call" => user_data'[r].daily_comment_count = 0
             /\ pc'[r] # "call" => pc'[r] = "idle" /\ last'.resp.status = 429]_vars

C3_Witness ==
    \E r \in Reqs :
        /\ pc[r] = "call"
        /\ user_doc[r].subscription_tier = "free"
        /\ user_doc[r].daily_comment_count = 5
        /\ user_doc[r].last_comment_date # today_str[r]
        /\ user_data[r].daily_comment_count = 0

\* C4: when the effective used count for today is at least the tier's limit,
\* generate-comment answers 429 carrying that limit, does not go on to the
\* text-generation call and leaves the stored documents unchanged.
C4_OverLimitDenied ==
    [][\A r \in Reqs :
          (/\ Checks(r)
           /\ AtLeast(EffectiveUsed(users[args[r].email], now),
                      LimitOrZero(users[args[r].email].subscription_tier)))
          => /\ pc'[r] = "idle"
             /\ last'.worker = r
             /\ last'.resp.status = 429
             /\ last'.resp.limit =
                   LimitOrZero(users[args[r].email].subscription_tier)
             /\ last'.resp.comment = ""
             /\ users' = users]_vars

C4_Witness ==
    /\ last.op = "generate"
    /\ last.resp.status = 429
    /\ last.resp.limit = Fin(5)
    /\ users["a@x"].subscription_tier = "free"
    /\ users["a@x"].daily_comment_count = 5
    /\ users["a@x"].last_comment_date = now

\* C5: when the text-generation call fails, the request ends with 500 and
\* the stored document is what it was when the request read it: nothing is
\* committed and the stored date is not changed.
C5_FailedGenerationNotCharged ==
    [][\A r \in Reqs :
          (pc[r] = "call" /\ pc'[r] # "call" /\ pc'[r] # "update")
          => /\ pc'[r] = "idle"
             /\ last'.worker = r
             /\ last'.resp = GenFailed
             /\ users' = users
             /\ users[args[r].email] = user_doc[r]]_vars

C5_Witness ==
    /\ last.op = "generate"
    /\ last.resp = GenFailed
    /\ users[last.email].exists
    /\ users[last.email].daily_comment_count > 0
    /\ \A r \in Reqs : pc[r] = "idle"

\* C6: whatever the interleaving of concurrent generate-comment requests, a
\* usage update applied when the stored date already is the request's day
\* raises the stored count by exactly one (so N updates raise it by N: no
\* increment is lost), also when the document changed since the request
\* read it.
C6_NoLostIncrement ==
    [][\A r \in Reqs :
          (Commits(r) /\ users[args[r].email].last_comment_date = today_str[r])
          => /\ users'[args[r].email].daily_comment_count
                   = users[args[r].email].daily_comment_count + 1
             /\ \A v \in Users \ {args[r].email} : users'[v] = users[v]]_vars

\* A request read the document dated today, another request's update was
\* applied, and then its own.
C6_Witness ==
    /\ last.op = "generate"
    /\ last.resp.status = 200
    /\ last.raced
    /\ users[last.email].last_comment_date = now
    /\ users[last.email].daily_comment_count >= 2

\* C7: a user whose stored tier is no key of the tier table is denied by
\* every quota check, with limit 0, and the request does not go on to the
\* text-generation call.
C7_UnknownTierDenied ==
    [][\A r \in Reqs :
          (/\ Checks(r)
           /\ users[args[r].email].subscription_tier \notin DOMAIN TIER_LIMITS)
          => /\ pc'[r] = "idle"
             /\ last'.worker = r
             /\ last'.resp.status = 429
             /\ last'.resp.limit = Fin(0)
             /\ users' = users]_vars

C7_Witness ==
    /\ last.op = "generate"
    /\ last.resp.status = 429
    /\ last.resp.limit = Fin(0)
    /\ users[last.email].subscription_tier = "legacy"
    /\ users[last.email].daily_comment_count > 0
    /\ now > 1

\* C8: a user with tier enterprise passes every quota check, whatever the
\* stored count and date.
C8_EnterpriseNeverDenied ==
    [][\A r \in Reqs :
          (Checks(r) /\ users[args[r].email].subscription_tier = "enterprise")
          => pc'[r] = "call" /\ last' = last]_vars

C8_Witness ==
    \E r \in Reqs :
        /\ pc[r] = "call"
        /\ user_doc[r].subscription_tier = "enterprise"
        /\ user_doc[r].last_comment_date = today_str[r]
        /\ user_data[r].daily_comment_count > 5

\* C9: signup with an identifier that is registered answers 409 and leaves
\* the stored documents unchanged; a document is written by signup only
\* under an identifier that is not registered.
C9_DuplicateSignupConflict ==
    [][/\ \A r \in Reqs, e \in Users, p \in Passwords \ {""} :
             (SignupCheck(r, e, p) /\ users[e].exists)
             => /\ pc'[r] = "idle"
                /\ last'.resp = Err(409, "User with this email already exists")
                /\ users' = users
       /\ \A r \in Reqs :
             (pc[r] = "signup_set" /\ pc'[r] = "idle")
             => ~users[args[r].email].exists]_vars

\* The first signup stored "pw2"; the second one was answered 409.
C9_Witness ==
    /\ last.op = "signup"
    /\ last.resp.status = 409
    /\ users[last.email].exists
    /\ check_password_hash(users[last.email].password_hash, "pw2")

\* C10: login with an identifier that is not registered and login with a
\* registered identifier and a wrong password get the same response (status
\* and body), which is the 401 of invalid credentials.
C10_LoginFailuresAlike ==
    \A e1 \in Users, e2 \in Users, p1 \in Passwords \ {""}, p2 \in Passwords \ {""} :
        (/\ ~users[e1].exists
         /\ users[e2].exists
         /\ ~check_password_hash(users[e2].password_hash, p2))
        => /\ LoginResponse(e1, p1) = LoginResponse(e2, p2)
           /\ LoginResponse(e2, p2).status = 401

\* A wrong-password login was just answered, and an identifier is unregistered.
C10_Witness ==
    /\ last.op = "login"
    /\ last.resp.status = 401
    /\ users[last.email].exists
    /\ \E e \in Users : ~users[e].exists /\ LoginResponse(e, "pw1") = last.resp

\* C11: within one calendar day the stored count of a user who exists
\* never decreases, whatever requests are interleaved.
C11_CountNeverDecreasesInDay ==
    [][\A u \in Users :
          (users[u].exists /\ now' = now)
          => /\ users'[u].exists
             /\ users'[u].daily_comment_count >= users[u].daily_comment_count]_vars

\* C12: a successful signup for an identifier that was not registered answers
\* 201 and stores a document with tier free, count 0 and today's date, whose
\* effective used count today is 0, under the password given.
C12_SignupCreatesFreshRecord ==
    [][\A r \in Reqs :
          (pc[r] = "signup_set" /\ pc'[r] = "idle")
          => /\ ~users[args[r].email].exists
             /\ last'.resp.status = 201
             /\ users'[args[r].email].exists
             /\ users'[args[r].email].subscription_tier = "free"
             /\ users'[args[r].email].daily_comment_count = 0
             /\ users'[args[r].email].last_comment_date = now
             /\ EffectiveUsed(users'[args[r].email], now) = 0
             /\ check_password_hash(users'[args[r].email].password_hash,
                                    args[r].password)
             /\ \A v \in Users \ {args[r].email} : users'[v] = users[v]]_vars

C12_Witness ==
    /\ last.op = "signup"
    /\ last.resp.status = 201
    /\ users[last.email] = NewUser(generate_password_hash("pw2", "s1"), now)
    /\ now > 1

\* C13: every failure of a request, a failing read or write of the document
\* store included, is answered with a JSON error body (and status 500 for a
\* store failure): no response comes from an exception that left the handler.
C13_EveryFailureIsJson ==
    last.resp.status >= 400 => last.resp.json

\* C14: with at most NReq generate-comment requests in flight together on
\* one day (the stored date being that day already), the effective used
\* count can exceed the tier's limit, and never by more than NReq - 1.
C14_OvershootBounded ==
    \A u \in Users :
        (users[u].exists /\ LimitOrZero(users[u].subscription_tier).kind = "fin")
        => EffectiveUsed(users[u], now)
              <= LimitOrZero(users[u].subscription_tier).n + (NReq - 1)

\* Two requests passed the check with one unit left, and both were committed.
C14_Witness ==
    /\ users["a@x"].exists
    /\ users["a@x"].subscription_tier = "free"
    /\ EffectiveUsed(users["a@x"], now) > 5
    /\ last.op = "generate"
    /\ last.resp.status = 200
    /\ last.raced

\* C15: within each generate-comment request the steps come in order: the
\* quota check follows the read that found the user, the text-generation
\* call is entered only from a check that permitted the request, the usage
\* update only from a call that succeeded, the store is written by
\* generate-comment only in the update step, and a request answered 400, 404
\* or 429 has reached neither the call nor the update.
C15_CallAndCommitInOrder ==
    [][\A r \in Reqs :
          /\ (pc[r] # "check" /\ pc'[r] = "check")
                => pc[r] = "idle" /\ user_doc'[r].exists
          /\ (pc[r] # "call" /\ pc'[r] = "call")
                => /\ pc[r] = "check"
                   /\ user_doc[r].exists
                   /\ ~AtLeast(EffectiveUsed(user_doc[r], now),
                               LimitOrZero(user_doc[r].subscription_tier))
          /\ (pc[r] # "update" /\ pc'[r] = "update") => pc[r] = "call"
          /\ (pc[r] \in {"check", "call"} /\ pc'[r] # pc[r]) => users' = users
          /\ (/\ last'.worker = r
              /\ last'.op = "generate"
              /\ last'.resp.status \in {400, 404, 429}
              /\ pc'[r] = "idle"
              /\ (last' # last \/ pc[r] # "idle"))
                => pc[r] \in {"idle", "check"} /\ users' = users]_vars

\* A request was refused before the call, and a later one is past a
\* successful call, about to write its usage update.
C15_Witness ==
    \E r \in Reqs :
        /\ pc[r] = "update"
        /\ user_data[r].subscription_tier = "free"
        /\ user_data[r].daily_comment_count = 4
        /\ last.op = "generate"
        /\ last.resp.status = 404

\* C17: in every reachable state the stored count of a user equals the
\* number of generate-comment requests for that user that returned a comment
\* on the stored last_comment_date.
C17_CountIsSuccessesOnStoredDate ==
    \A u \in Users :
        users[u].exists
        => users[u].daily_comment_count
              = succeeded[u][users[u].last_comment_date]

\* C18: whatever the interleaving of concurrent signups for one identifier,
\* the record is created once: a record that exists is not replaced by a
\* signup (its password hash stays), and no signup for an identifier that
\* already has a record is answered 201.
C18_RecordCreatedOnce ==
    [][\A u \in Users :
          users[u].exists
          => /\ users'[u].exists
             /\ users'[u].password_hash = users[u].password_hash
             /\ \A r \in Reqs :
                   ~ /\ pc[r] = "signup_set" /\ pc'[r] = "idle"
                     /\ args[r].email = u
                     /\ last'.resp.status = 201]_vars

\* C19: the stored last_comment_date of a user never moves backward: every
\* write of it is greater than or equal to the value it replaces, whatever
\* the interleaving of generate-comment requests around midnight.
C19_DateNeverMovesBack ==
    [][\A u \in Users :
          (users[u].exists /\ users'[u].exists)
          => users'[u].last_comment_date >= users[u].last_comment_date]_vars

\* C20: the quota state a successful login reports is the one the quota
\* check enforces for the same record at that moment: usage is the effective
\* used count for today, limit is the limit the check applies to the tier
\* (0 for a tier that is no key of the table).
C20_LoginReportsEnforcedQuota ==
    [][(last' # last /\ last'.op = "login" /\ last'.resp.status = 200)
          => /\ last'.resp.userData.usage = EffectiveUsed(users[last'.email], now)
             /\ last'.resp.userData.limit
                   = LimitOrZero(users[last'.email].subscription_tier)]_vars

====
